---- MODULE Spec2Model ----
(***************************************************************************)
(* RFM customer segmentation: rfm.py (RFM table, knee detection, joint     *)
(* clustering and cluster profile), llm_gemini.py (label validation) and   *)
(* the session state of app.py.                                            *)
(*                                                                         *)
(* Numbers.  WCSS values are non-negative integers.  Quantities the code   *)
(* divides are kept as exact fractions and compared by cross               *)
(* multiplication.  Values the code rounds are integers in the unit of the *)
(* rounding: standardized scores and their means in hundredths (round(2)), *)
(* PctBase in ten-thousandths (round(4)).                                  *)
(***************************************************************************)
EXTENDS Integers, Sequences, FiniteSets

VARIABLES
    \* get_numero_otimo_clusters: arguments and outcome
    wcss, k_min, k_max, knee,
    \* cluster_rfm_joint: arguments and outcome
    rfm, rfm_columns, n_clusters, joint,
    \* profile share computation: the Clientes column and the PctBase column
    clientes, pct_base,
    \* build_rfm_table: arguments and outcome
    data, order_col, approved_col, approved_values, rfm_table,
    \* app.py: st.session_state, the number of pipeline runs so far, and the message
    \* the last rerun of the script showed
    session, runs, shown

kneeVars == <<wcss, k_min, k_max, knee>>
jointVars == <<rfm, rfm_columns, n_clusters, joint>>
pctVars == <<clientes, pct_base>>
tableVars == <<data, order_col, approved_col, approved_values, rfm_table>>
appVars == <<session, runs, shown>>
vars == <<kneeVars, jointVars, pctVars, tableVars, appVars>>

None == "None"
NotCalled == [st |-> "not_called"]
Raised(e) == [st |-> "raised", error |-> e]

\* The parts of the state a specification does not exercise stay as constructed.
KneeIdle == wcss = <<>> /\ k_min = 0 /\ k_max = 0 /\ knee = NotCalled
JointIdle == rfm = <<>> /\ rfm_columns = <<>> /\ n_clusters = 0 /\ joint = NotCalled
PctIdle == clientes = <<>> /\ pct_base = <<>>
TableIdle ==
    /\ data = <<>> /\ order_col = None /\ approved_col = None /\ approved_values = {}
    /\ rfm_table = NotCalled
AppIdle == session = <<>> /\ runs = 0 /\ shown = None

Abs(x) == IF x < 0 THEN -x ELSE x

\* app.py: k_min, k_max = 2, 10, also the ends of the slider of the manual mode
KMin == 2
KMax == 10

(***************************************************************************)
(* Knee detection: get_numero_otimo_clusters (rfm.py)                      *)
(***************************************************************************)
MaxWcss == 3
MaxLen == 4
DefaultKMin == 2
MaxKneeK == 5

\* numerador of point i (0-based) of the curve
Numerador(w, kmin, kmax, i) ==
    LET x1 == kmin
        y1 == w[1]
        x2 == kmax
        y2 == w[Len(w)]
        x0 == kmin + i
        y0 == w[i + 1]
    IN  Abs((y2 - y1) * x0 - (x2 - x1) * y0 + x2 * y1 - y2 * x1)

\* denominador squared: the code takes math.sqrt of this sum
Denominador2(w, kmin, kmax) ==
    LET y1 == w[1]
        y2 == w[Len(w)]
    IN  (y2 - y1) * (y2 - y1) + (kmax - kmin) * (kmax - kmin)

\* numerador / denominador, kept as the fraction num / sqrt(den2)
Distancia(w, kmin, kmax, i) ==
    [num |-> Numerador(w, kmin, kmax, i), den2 |-> Denominador2(w, kmin, kmax)]

\* a > b for two such fractions (both denominators positive)
DistGreater(a, b) == a.num * a.num * b.den2 > b.num * b.num * a.den2

\* np.argmax keeping the last maximum instead of the first
RECURSIVE ArgMaxLastFrom(_, _, _)
ArgMaxLastFrom(d, i, best) ==
    IF i > Len(d) THEN best - 1
    ELSE ArgMaxLastFrom(d, i + 1, IF DistGreater(d[best], d[i]) THEN best ELSE i)

ArgMaxLast(d) == ArgMaxLastFrom(d, 2, 1)

\* np.argmax: 0-based index of the first maximum
RECURSIVE ArgMaxFrom(_, _, _)
ArgMaxFrom(d, i, best) ==
    IF i > Len(d) THEN best - 1
    ELSE ArgMaxFrom(d, i + 1, IF DistGreater(d[i], d[best]) THEN i ELSE best)

ArgMax(d) == ArgMaxFrom(d, 2, 1)

get_numero_otimo_clusters(w, kmin, kmax) ==
    IF Len(w) = 0 THEN Raised("IndexError")                      \* wcss[0]
    ELSE IF Denominador2(w, kmin, kmax) = 0
         THEN Raised("ZeroDivisionError")                        \* numerador / 0.0
    ELSE LET distancias == [i \in 1..Len(w) |-> Distancia(w, kmin, kmax, i - 1)]
         IN  [st |-> "returned", k |-> kmin + ArgMax(distancias)]

WcssLists == UNION {[1..n -> 0..MaxWcss] : n \in 0..MaxLen}

InitKnee ==
    /\ wcss \in WcssLists
    /\ k_min \in DefaultKMin..MaxKneeK
    /\ k_max \in DefaultKMin..MaxKneeK
    /\ knee = NotCalled
    /\ JointIdle /\ PctIdle /\ TableIdle /\ AppIdle

CallKnee ==
    /\ knee = NotCalled
    /\ knee' = get_numero_otimo_clusters(wcss, k_min, k_max)
    /\ UNCHANGED <<wcss, k_min, k_max, jointVars, pctVars, tableVars, appVars>>

NextKnee == CallKnee

SpecKnee == InitKnee /\ [][NextKnee]_vars

\* The arguments the contract allows: one WCSS value per k of a range of two or more
KneeWellFormed == k_min < k_max /\ Len(wcss) = k_max - k_min + 1

\* The distance of the point of k, as a fraction
DistOfK(k) == Distancia(wcss, k_min, k_max, k - k_min)

\* C1: for a WCSS list of length k_max-k_min+1 with k_min < k_max the call returns
\* a k of [k_min, k_max] whose distance to the chord no other k exceeds, and every
\* lower k has a strictly smaller distance (the lowest k among the maxima).
C1_KneeIsFirstMax ==
    (knee.st # "not_called" /\ KneeWellFormed) =>
        /\ knee.st = "returned"
        /\ knee.k \in k_min..k_max
        /\ \A k \in k_min..k_max : ~DistGreater(DistOfK(k), DistOfK(knee.k))
        /\ \A k \in k_min..(knee.k - 1) : DistGreater(DistOfK(knee.k), DistOfK(k))

\* C1 witness: a returned knee strictly inside the range, with a tie for the maximum
\* at a higher k.
C1_Witness ==
    /\ knee.st = "returned" /\ KneeWellFormed
    /\ k_min < knee.k /\ knee.k < k_max
    /\ \E k \in (knee.k + 1)..k_max :
           /\ ~DistGreater(DistOfK(knee.k), DistOfK(k))
           /\ DistOfK(k).num > 0

\* C2: with k_min = k_max and a single WCSS value the call returns k_min.
C2_DegenerateReturnsKMin ==
    (knee.st # "not_called" /\ k_min = k_max /\ Len(wcss) = 1) =>
        (knee.st = "returned" /\ knee.k = k_min)

\* C3: a WCSS list whose length is not k_max-k_min+1 makes the call fail.
C3_LengthMismatchFails ==
    (knee.st # "not_called" /\ Len(wcss) # k_max - k_min + 1) => knee.st = "raised"

(***************************************************************************)
(* Joint clustering and cluster profile: cluster_rfm_joint (rfm.py)        *)
(*                                                                         *)
(* A row of the RFM table carries its customer and z, the sum of the       *)
(* customer's three standardized features in hundredths.  StandardScaler   *)
(* centres every column, so the z of a table sum to zero.  The columns of  *)
(* the table are carried by name.                                          *)
(***************************************************************************)
MaxCustomers == 3
MaxZ == 1
MaxK == 4

Range(s) == {s[i] : i \in 1..Len(s)}

RECURSIVE SumSeq(_)
SumSeq(s) == IF s = <<>> THEN 0 ELSE s[1] + SumSeq(Tail(s))

\* numpy round: p/q (q > 0) to the nearest integer, halves to the even one
RoundHalfEven(p, q) ==
    LET f == p \div q
        r == p - f * q
    IN  IF 2 * r < q THEN f
        ELSE IF 2 * r > q THEN f + 1
        ELSE IF f % 2 = 0 THEN f ELSE f + 1

RfmColumns == <<"Cliente", "Recencia", "Frequencia", "Receita">>
FeatureColumns == <<"R_inv", "F_log", "M_log">>
OutputColumns ==
    <<"Cliente", "Recencia", "Frequencia", "Receita", "ClusterId", "RankQualidade", "ScoreComposto">>
\* columns a caller's table may carry besides the four of build_rfm_table
ExtraColumns == <<"Segmento", "R_inv", "RankQualidade">>

\* df[c] = ...: replaces the column, or appends it
AssignColumn(cols, c) == IF c \in Range(cols) THEN cols ELSE Append(cols, c)

RECURSIVE AssignColumns(_, _)
AssignColumns(cols, cs) ==
    IF cs = <<>> THEN cols ELSE AssignColumns(AssignColumn(cols, cs[1]), Tail(cs))

\* build_rfm_features: the columns of the enriched table
build_rfm_features_columns(cols) == AssignColumns(cols, FeatureColumns)

\* merge(prof[["ClusterId", "RankQualidade"]], on="ClusterId", how="left"): a column
\* both sides have, other than the key, gets the suffixes _x and _y
MergeRankColumn(cols) ==
    IF "RankQualidade" \in Range(cols)
    THEN Append([i \in 1..Len(cols) |->
                    IF cols[i] = "RankQualidade" THEN "RankQualidade_x" ELSE cols[i]],
                "RankQualidade_y")
    ELSE Append(cols, "RankQualidade")

\* drop(columns=[...], errors="ignore")
DropColumns(cols, cs) == SelectSeq(cols, LAMBDA c : c \notin Range(cs))

\* the table returned without the column selection
KeepAllColumns(cols, wanted) == cols

\* enriched[cols]: exactly the wanted columns, or a KeyError (the empty result)
SelectColumns(cols, wanted) == IF Range(wanted) \subseteq Range(cols) THEN wanted ELSE <<>>

\* the columns of the customer table at the end of cluster_rfm_joint
EnrichedColumns(cols) ==
    LET c1 == build_rfm_features_columns(cols)
        c2 == AssignColumn(AssignColumn(c1, "ClusterId"), "ScoreComposto")
        c3 == MergeRankColumn(c2)
        c4 == DropColumns(c3, FeatureColumns)
    IN  SelectColumns(c4, OutputColumns)

\* KMeans(n_clusters=k).fit without sklearn's check of the number of samples
KMeansFitsAny(n, k) == TRUE

\* KMeans(n_clusters=k).fit_predict(Xs) raises unless n_samples >= n_clusters
KMeansFits(n, k) == n >= k

\* groupby("ClusterId").agg(...).reset_index(): one row per cluster id that occurs,
\* in ascending id order; the mean score is kept as ScoreSum / Clientes
GroupByCluster(t, labels, k) ==
    LET ids == {labels[i] : i \in 1..Len(t)}
        row(c) == [ClusterId |-> c,
                   Clientes |-> Cardinality({i \in 1..Len(t) : labels[i] = c}),
                   ScoreSum |-> SumSeq([i \in 1..Len(t) |-> IF labels[i] = c THEN t[i].z ELSE 0])]
        present == SelectSeq([c \in 1..k |-> c - 1], LAMBDA c : c \in ids)
    IN  [j \in 1..Len(present) |-> row(present[j])]

\* mean(a) <= mean(b) for two profile rows
MeanLeq(a, b) == a.ScoreSum * b.Clientes <= b.ScoreSum * a.Clientes

Permutations(m) == {p \in [1..m -> 1..m] : \A i, j \in 1..m : p[i] = p[j] => i = j}

\* sort_values(..., ascending=False)
SortDescending(prof) ==
    {[j \in 1..Len(prof) |-> prof[p[j]]] :
        p \in {q \in Permutations(Len(prof)) :
                  \A i \in 1..(Len(prof) - 1) : MeanLeq(prof[q[i + 1]], prof[q[i]])}}

\* sort_values("ScoreComposto_medio", ascending=True): every order of the rows that
\* is ascending in the mean score (the sort is not stable: equal means in any order)
SortByScore(prof) ==
    {[j \in 1..Len(prof) |-> prof[p[j]]] :
        p \in {q \in Permutations(Len(prof)) :
                  \A i \in 1..(Len(prof) - 1) : MeanLeq(prof[q[i]], prof[q[i + 1]])}}

\* (Clientes / total).round(2)
PctBaseTwoDecimals(counts) ==
    [i \in 1..Len(counts) |-> 100 * RoundHalfEven(counts[i] * 100, SumSeq(counts))]

\* (prof["Clientes"] / total).round(4), in ten-thousandths
PctBase(counts) ==
    [i \in 1..Len(counts) |-> RoundHalfEven(counts[i] * 10000, SumSeq(counts))]

\* the profile returned for one sorted order: rank, share, and the mean score
\* rounded to two decimals for display
ProfileDisplay(sorted) ==
    LET pct == PctBase([j \in 1..Len(sorted) |-> sorted[j].Clientes])
    IN  [j \in 1..Len(sorted) |->
            [ClusterId |-> sorted[j].ClusterId,
             Clientes |-> sorted[j].Clientes,
             ScoreComposto_medio |-> RoundHalfEven(sorted[j].ScoreSum, sorted[j].Clientes),
             RankQualidade |-> j - 1,
             PctBase |-> pct[j]]]

\* the RankQualidade of a left row that no row of the right table matches (NaN)
NoRank == -1

\* prof[["ClusterId", "RankQualidade"]] after RankQualidade = np.arange(len(prof))
RankTable(prof) ==
    [j \in 1..Len(prof) |-> [ClusterId |-> prof[j].ClusterId, RankQualidade |-> j - 1]]

\* the left rows of one customer row: one per right row with its ClusterId, in the
\* order of the right table, or one without a rank when there is none
MatchesOf(row, right) ==
    LET hits == SelectSeq(right, LAMBDA r : r.ClusterId = row.ClusterId)
    IN  IF hits = <<>>
        THEN <<[row EXCEPT !.RankQualidade = NoRank]>>
        ELSE [h \in 1..Len(hits) |-> [row EXCEPT !.RankQualidade = hits[h].RankQualidade]]

\* a merge that takes the rank of a customer from the profile row at the position
\* of its ClusterId instead of the row with its ClusterId
RECURSIVE LeftMergeByPosition(_, _)
LeftMergeByPosition(left, right) ==
    IF left = <<>> THEN <<>>
    ELSE <<[left[1] EXCEPT !.RankQualidade =
                IF left[1].ClusterId + 1 \in 1..Len(right)
                THEN right[left[1].ClusterId + 1].RankQualidade
                ELSE NoRank]>>
         \o LeftMergeByPosition(Tail(left), right)

\* enriched.merge(right, on="ClusterId", how="left"): the left rows in their order,
\* each once per matching right row
RECURSIVE LeftMerge(_, _)
LeftMerge(left, right) ==
    IF left = <<>> THEN <<>>
    ELSE MatchesOf(left[1], right) \o LeftMerge(Tail(left), right)

\* the rows of the customer table: ClusterId and ScoreComposto assigned, then the
\* rank merged in
EnrichedRows(t, labels, prof) ==
    LeftMerge([i \in 1..Len(t) |->
                  [Cliente |-> t[i].Cliente,
                   ClusterId |-> labels[i],
                   ScoreComposto |-> t[i].z,
                   RankQualidade |-> NoRank]],
              RankTable(prof))

\* km.fit_predict(Xs): a label of 0..k-1 per customer.  Customers that differ in z
\* are different points, and KMeans leaves a cluster empty only when the points
\* are fewer than k (it then warns of duplicate points), so at least
\* min(k, number of different z) clusters receive a customer.
KMeansLabels(t, k) ==
    LET zs == {t[i].z : i \in 1..Len(t)}
        least == IF Cardinality(zs) < k THEN Cardinality(zs) ELSE k
    IN  {l \in [1..Len(t) -> 0..(k - 1)] :
            Cardinality({l[i] : i \in 1..Len(t)}) >= least}

\* every outcome of cluster_rfm_joint(rfm, n_clusters, random_state)
cluster_rfm_joint(t, cols, k) ==
    IF Len(t) = 0 THEN {Raised("ValueError")}            \* StandardScaler: 0 samples
    ELSE IF ~KMeansFits(Len(t), k) THEN {Raised("ValueError")}
    ELSE IF EnrichedColumns(cols) = <<>> THEN {Raised("KeyError")}
    ELSE UNION {
            {[st |-> "returned",
              columns |-> EnrichedColumns(cols),
              enriched |-> EnrichedRows(t, labels, sorted),
              profile |-> ProfileDisplay(sorted)] :
                sorted \in SortByScore(GroupByCluster(t, labels, k))} :
            labels \in KMeansLabels(t, k)}

\* RFM tables: customers 1..n, one row each, z summing to zero
RfmTables ==
    UNION {{[i \in 1..n |-> [Cliente |-> i, z |-> zs[i]]] :
               zs \in {f \in [1..n -> (-MaxZ)..MaxZ] : SumSeq(f) = 0}} :
           n \in 0..MaxCustomers}

\* the columns of a table: the four RFM columns and any of the extra ones
ColumnLists ==
    {RfmColumns \o SelectSeq(ExtraColumns, LAMBDA c : c \in S) : S \in SUBSET Range(ExtraColumns)}

InitJoint ==
    /\ rfm \in RfmTables
    /\ rfm_columns \in ColumnLists
    /\ n_clusters \in 1..MaxK
    /\ joint = NotCalled
    /\ KneeIdle /\ PctIdle /\ TableIdle /\ AppIdle

CallJoint ==
    /\ joint = NotCalled
    /\ joint' \in cluster_rfm_joint(rfm, rfm_columns, n_clusters)
    /\ UNCHANGED <<rfm, rfm_columns, n_clusters, kneeVars, pctVars, tableVars, appVars>>

NextJoint == CallJoint

SpecJoint == InitJoint /\ [][NextJoint]_vars

\* the customers of the returned table that landed in cluster c
RowsOf(c) == {i \in 1..Len(joint.enriched) : joint.enriched[i].ClusterId = c}

\* the mean ScoreComposto of cluster c over the returned customer table, as the
\* fraction ScoreSum / Clientes
MeanOf(c) ==
    [ScoreSum |-> SumSeq([i \in 1..Len(joint.enriched) |->
                             IF i \in RowsOf(c) THEN joint.enriched[i].ScoreComposto ELSE 0]),
     Clientes |-> Cardinality(RowsOf(c))]

MeanLess(a, b) == ~MeanLeq(b, a)

ProfileRanks == {joint.profile[j].RankQualidade : j \in 1..Len(joint.profile)}

C6_ExactlySevenColumns ==
    joint.st = "returned" => joint.columns = OutputColumns

\* C6 witness: a call that returned for an input table carrying an unrelated
\* column and one named like an intermediate feature.
C6_Witness ==
    /\ joint.st = "returned"
    /\ {"Segmento", "R_inv"} \subseteq Range(rfm_columns)

DistinctCustomers == {rfm[i].Cliente : i \in 1..Len(rfm)}

\* C7: a call with more clusters than the table has distinct customers raises.
C7_TooManyClustersRaises ==
    (joint.st # "not_called" /\ n_clusters > Cardinality(DistinctCustomers))
        => joint.st = "raised"

\* C7 witness: a call on a table of at least two customers with more clusters than
\* customers, which raised.
C7_Witness ==
    /\ joint.st = "raised"
    /\ Cardinality(DistinctCustomers) >= 2
    /\ n_clusters > Cardinality(DistinctCustomers)
    /\ Range(rfm_columns) = Range(RfmColumns)

\* C11: a returned customer table has exactly one row per customer of the input
\* table, in the input's order, and every row carries a rank, the RankQualidade of
\* the one profile row with the row's ClusterId.
C11_RankJoinedPerCustomer ==
    joint.st = "returned" =>
        /\ Len(joint.enriched) = Len(rfm)
        /\ \A i \in 1..Len(rfm) : joint.enriched[i].Cliente = rfm[i].Cliente
        /\ \A i \in 1..Len(joint.enriched) :
               /\ joint.enriched[i].RankQualidade # NoRank
               /\ Cardinality({j \in 1..Len(joint.profile) :
                                  joint.profile[j].ClusterId = joint.enriched[i].ClusterId}) = 1
               /\ \A j \in 1..Len(joint.profile) :
                      joint.profile[j].ClusterId = joint.enriched[i].ClusterId
                          => joint.enriched[i].RankQualidade = joint.profile[j].RankQualidade

\* C11 witness: a returned table of three customers in two clusters where the
\* cluster with the higher ClusterId has rank 0, so rank and ClusterId differ in
\* every row, and two customers share a cluster.
C11_Witness ==
    /\ joint.st = "returned"
    /\ Len(joint.enriched) = 3
    /\ Len(joint.profile) = 2
    /\ \A i \in 1..3 : joint.enriched[i].RankQualidade # joint.enriched[i].ClusterId
    /\ \E i \in 1..3 : joint.enriched[i].RankQualidade = 1

(***************************************************************************)
(* The share of the base: lines 132-133 of cluster_rfm_joint as a function *)
(* of the Clientes column of the profile.  The share of a row and the sum  *)
(* of the shares do not depend on the order of the rows, so the columns    *)
(* are enumerated with their counts in descending order.                   *)
(***************************************************************************)
MaxCount == 5
MaxProfileClusters == KMax

RECURSIVE Repeat(_, _)
Repeat(c, times) == IF times = 0 THEN <<>> ELSE <<c>> \o Repeat(c, times - 1)

\* the column with mult[c] clusters of c customers, c from hi down to 1
RECURSIVE ColumnOf(_, _)
ColumnOf(mult, hi) ==
    IF hi = 0 THEN <<>> ELSE Repeat(hi, mult[hi]) \o ColumnOf(mult, hi - 1)

ClientesColumns ==
    {ColumnOf(mult, MaxCount) :
        mult \in {f \in [1..MaxCount -> 0..MaxProfileClusters] :
                     SumSeq(f) \in 1..MaxProfileClusters}}

InitPct ==
    /\ clientes \in ClientesColumns
    /\ pct_base = <<>>
    /\ KneeIdle /\ JointIdle /\ TableIdle /\ AppIdle

ComputePctBase ==
    /\ pct_base = <<>>
    /\ pct_base' = PctBase(clientes)
    /\ UNCHANGED <<clientes, kneeVars, jointVars, tableVars, appVars>>

NextPct == ComputePctBase

SpecPct == InitPct /\ [][NextPct]_vars

\* C5: for at most 10 non-empty clusters every PctBase is the multiple of 0.0001
\* nearest to count / n, and the PctBase of a profile sum to 1.0 within 0.001.
C5_PctBaseRoundedAndSumsToOne ==
    pct_base # <<>> =>
        LET n == SumSeq(clientes) IN
        /\ Len(pct_base) = Len(clientes)
        /\ \A i \in 1..Len(clientes) :
               2 * Abs(pct_base[i] * n - 10000 * clientes[i]) <= n
        /\ Abs(SumSeq(pct_base) - 10000) <= 10

\* C5 witness: a profile of 10 clusters whose rounded shares do not sum to 1.0.
C5_Witness ==
    /\ pct_base # <<>>
    /\ Len(clientes) = MaxProfileClusters
    /\ SumSeq(pct_base) # 10000

(***************************************************************************)
(* The RFM table: build_rfm_table (rfm.py)                                 *)
(*                                                                         *)
(* A cell of the uploaded data is <<v>>, or <<>> when it is missing (NaN)  *)
(* or does not parse (a date that to_datetime coerces to NaT, a value that *)
(* to_numeric coerces to NaN).  Dates are day numbers.                     *)
(***************************************************************************)
MaxRows == 2
MaxCustomerId == 2
MaxDay == 1
MaxValue == 1
MaxOrderId == 1

Missing == <<>>
Cell(values) == {Missing} \cup {<<v>> : v \in values}
StatusValues == {"approved", "canceled"}

Transactions ==
    [customer : Cell(1..MaxCustomerId),
     date : Cell(0..MaxDay),
     value : Cell((-MaxValue)..MaxValue),
     order : Cell(1..MaxOrderId),
     status : StatusValues]

Max(S) == CHOOSE x \in S : \A y \in S : y <= x
Min(S) == CHOOSE x \in S : \A y \in S : x <= y

\* the keys of a groupby, in ascending order
RECURSIVE SortedSeq(_)
SortedSeq(S) == IF S = {} THEN <<>> ELSE <<Min(S)>> \o SortedSeq(S \ {Min(S)})

\* dropna(subset=[customer_col, date_col]) after to_datetime(errors="coerce")
DropMissing(d) == SelectSeq(d, LAMBDA t : t.customer # Missing /\ t.date # Missing)

\* the status filter, applied when a status column and approved values are given
FilterApproved(d, col, values) ==
    IF col # None /\ values # {}
    THEN SelectSeq(d, LAMBDA t : t.status \in values)
    ELSE d

\* to_numeric(errors="coerce").fillna(0)
Numeric(cell) == IF cell = Missing THEN 0 ELSE cell[1]

RowsOfCustomer(d, c) == {i \in 1..Len(d) : d[i].customer = <<c>>}

\* groupby(customer)[date].max(), then ref_date - last purchase, in days
Recencia(d, c) ==
    LET last(x) == Max({d[i].date[1] : i \in RowsOfCustomer(d, x)})
        ref_date == Max({last(d[i].customer[1]) : i \in 1..Len(d)})
    IN  ref_date - last(c)

\* groupby(customer)[order].nunique() (missing order ids are not counted), or
\* groupby(customer).size() when there is no order column
Frequencia(d, c, ocol) ==
    IF ocol # None
    THEN Cardinality({d[i].order[1] : i \in {j \in RowsOfCustomer(d, c) : d[j].order # Missing}})
    ELSE Cardinality(RowsOfCustomer(d, c))

\* groupby(customer)[value].sum()
Receita(d, c) ==
    SumSeq([i \in 1..Len(d) |-> IF i \in RowsOfCustomer(d, c) THEN Numeric(d[i].value) ELSE 0])

build_rfm_table(d, ocol, acol, avalues) ==
    LET df == FilterApproved(DropMissing(d), acol, avalues)
        keys == SortedSeq({df[i].customer[1] : i \in 1..Len(df)})
    IN  [st |-> "returned",
         rows |-> [j \in 1..Len(keys) |->
                      [Cliente |-> keys[j],
                       Recencia |-> Recencia(df, keys[j]),
                       Frequencia |-> Frequencia(df, keys[j], ocol),
                       Receita |-> Receita(df, keys[j])]]]

InitTable ==
    /\ data \in UNION {[1..n -> Transactions] : n \in 0..MaxRows}
    /\ order_col \in {None, "Pedido"}
    /\ approved_col \in {None, "Status"}
    \* app.py:100-103: approved values are only asked for when a status column is chosen
    /\ approved_values \in IF approved_col = None THEN {{}} ELSE {{}, {"approved"}}
    /\ rfm_table = NotCalled
    /\ KneeIdle /\ JointIdle /\ PctIdle /\ AppIdle

CallBuildTable ==
    /\ rfm_table = NotCalled
    /\ rfm_table' = build_rfm_table(data, order_col, approved_col, approved_values)
    /\ UNCHANGED <<data, order_col, approved_col, approved_values,
                   kneeVars, jointVars, pctVars, appVars>>

NextTable == CallBuildTable

SpecTable == InitTable /\ [][NextTable]_vars

\* the customers with a transaction left after the filtering
CustomersLeft ==
    {c \in 1..MaxCustomerId :
        \E i \in 1..Len(data) :
            /\ data[i].customer = <<c>>
            /\ data[i].date # Missing
            /\ (approved_col # None /\ approved_values # {}) => data[i].status \in approved_values}

\* C8: a table build_rfm_table returns has exactly one row per customer with a
\* transaction left after filtering, and every row has Recencia >= 0,
\* Frequencia >= 1 and Receita >= 0, in both frequency modes.
C8_RfmRowsInRange ==
    rfm_table.st = "returned" =>
        LET rows == rfm_table.rows IN
        /\ {rows[j].Cliente : j \in 1..Len(rows)} = CustomersLeft
        /\ Len(rows) = Cardinality(CustomersLeft)
        /\ \A j \in 1..Len(rows) :
               /\ rows[j].Recencia >= 0
               /\ rows[j].Frequencia >= 1
               /\ rows[j].Receita >= 0

(***************************************************************************)
(* The session of app.py.  Every interaction reruns the script; an action  *)
(* is one rerun with the button that caused it.  A stored result carries   *)
(* the number of the pipeline run that produced it, and stored labels the  *)
(* number of the run whose profile they were generated from.               *)
(***************************************************************************)
MaxRuns == 2
MaxAppCustomers == 10
MaxEmptyClusters == 1

Unset == [unset |-> TRUE]
Message(m, d) == [msg |-> m, detail |-> d]

\* the non-increasing lists of len values of 0..hi
RECURSIVE NonIncreasing(_, _)
NonIncreasing(len, hi) ==
    IF len = 0 THEN {<<>>}
    ELSE UNION {{<<v>> \o w : w \in NonIncreasing(len - 1, v)} : v \in 0..hi}

\* WCSS curves of the automatic mode: one value per k of KMin..KMax, non-increasing
AppWcssLists == NonIncreasing(KMax - KMin + 1, MaxWcss)

\* get_numero_otimo_clusters(wcss, k_min=2, k_max=10) for every such curve
KneeChoices == {get_numero_otimo_clusters(w, KMin, KMax) : w \in AppWcssLists}

\* chosen_k of the automatic mode for a table of n customers: build_rfm_features,
\* calcular_wcss (a KMeans fit per k of KMin..KMax), get_numero_otimo_clusters
AutomaticK(n) ==
    IF n = 0 THEN {Raised("build_rfm_features")}
    ELSE IF \E k \in KMin..KMax : ~KMeansFits(n, k) THEN {Raised("calcular_wcss")}
    ELSE KneeChoices

\* the ClusterId of a profile of k clusters: 0..k-1 without the clusters that
\* received no customer
ProfileIds(k) ==
    {(0..(k - 1)) \ E :
        E \in {F \in SUBSET (0..(k - 1)) : Cardinality(F) <= MaxEmptyClusters /\ Cardinality(F) < k}}

\* cluster_rfm_joint on a table of n customers, as the app stores its result
JointResults(run, n, k) ==
    IF n = 0 \/ ~KMeansFits(n, k) THEN {Raised("cluster_rfm_joint")}
    ELSE {[st |-> "returned",
           rfm_out |-> [run |-> run],
           cluster_profile |-> [run |-> run, ClusterId |-> ids]] : ids \in ProfileIds(k)}

\* n_clusters of the sidebar: <<k>> for the slider of the manual mode, <<>> (None)
\* for the automatic mode
SidebarClusters == {<<>>} \cup {<<k>> : k \in KMin..KMax}

\* the try block of the submit handler up to the call of cluster_rfm_joint: every
\* outcome for the n_clusters of the sidebar
PipelineOutcomes(run, sidebar_k) ==
    {Raised("build_rfm_table")} \cup
    UNION {
        LET chosen == IF sidebar_k # <<>>
                      THEN {[st |-> "returned", k |-> sidebar_k[1]]}
                      ELSE AutomaticK(n)
        IN  UNION {IF c.st = "raised" THEN {c} ELSE JointResults(run, n, c.k) : c \in chosen} :
        n \in 0..MaxAppCustomers}

\* an except branch that also clears the stored customer table
OnPipelineErrorClears(s) == [s EXCEPT !.rfm_out = Unset]

\* except Exception: st.error(...); st.stop() -- the session is not written
OnPipelineError(s) == s

\* the three stores without the reset of the labels
StoreResultsKeepLabels(s, out, prof) ==
    [s EXCEPT !.rfm_out = out, !.cluster_profile = prof]

\* the three stores that end the try block
StoreResults(s, out, prof) ==
    [s EXCEPT !.rfm_out = out, !.cluster_profile = prof, !.cluster_labels = Unset]

\* what the LLM may answer for a profile: no usable JSON, JSON without a list
\* "clusters", or a list of items with these ClusterId
LlmAnswers(prof) ==
    {[kind |-> "error"], [kind |-> "json", has_clusters |-> FALSE, ClusterId |-> {}]} \cup
    {[kind |-> "json", has_clusters |-> TRUE, ClusterId |-> ids] :
        ids \in {prof.ClusterId, prof.ClusterId \cup {KMax}, {}}
                \cup {prof.ClusterId \ {c} : c \in prof.ClusterId}}

\* gemini_generate_json: the parsed JSON, or RuntimeError
gemini_generate_json(answer) ==
    IF answer.kind = "error" THEN Raised("RuntimeError")
    ELSE [st |-> "returned", json |-> answer]

\* build_cluster_labels(cluster_profile, llm_json)
build_cluster_labels(prof, llm_json) ==
    IF ~llm_json.has_clusters THEN Raised("ValueError")
    ELSE IF llm_json.ClusterId = {} THEN Raised("KeyError")     \* labels["ClusterId"] of an empty frame
    ELSE IF prof.ClusterId \ llm_json.ClusterId # {} THEN Raised("ValueError")
    ELSE [st |-> "returned", labels |-> [run |-> prof.run, ClusterId |-> llm_json.ClusterId]]

InitApp ==
    /\ session = [rfm_out |-> Unset, cluster_profile |-> Unset, cluster_labels |-> Unset,
                  gemini_models |-> <<>>]
    /\ runs = 0
    /\ shown = Message("none", "")
    /\ KneeIdle /\ JointIdle /\ PctIdle /\ TableIdle

\* the button "Carregar modelos"
LoadModels ==
    /\ \/ /\ session' = [session EXCEPT !.gemini_models = <<"gemini">>]
          /\ shown' = Message("models_loaded", "")
       \/ /\ session' = [session EXCEPT !.gemini_models = <<>>]
          /\ shown' = Message("models_error", "")
    /\ UNCHANGED <<runs, kneeVars, jointVars, pctVars, tableVars>>

\* the form's submit button: one run of the pipeline
Submit ==
    /\ runs < MaxRuns
    /\ runs' = runs + 1
    /\ \E sidebar_k \in SidebarClusters :
       \E outcome \in PipelineOutcomes(runs + 1, sidebar_k) :
          IF outcome.st = "raised"
          THEN /\ session' = OnPipelineError(session)
               /\ shown' = Message("pipeline_error", outcome.error)
          ELSE /\ session' = StoreResults(session, outcome.rfm_out, outcome.cluster_profile)
               /\ shown' = Message("pipeline_done", "")
    /\ UNCHANGED <<kneeVars, jointVars, pctVars, tableVars>>

\* the button "Gerar nomes e estrategias (LLM)", shown once results are stored and a
\* model is selected
GenerateLabels ==
    /\ session.rfm_out # Unset /\ session.cluster_profile # Unset
    /\ session.gemini_models # <<>>
    /\ \E answer \in LlmAnswers(session.cluster_profile) :
          LET llm_json == gemini_generate_json(answer)
              labels_df == IF llm_json.st = "raised" THEN llm_json
                           ELSE build_cluster_labels(session.cluster_profile, llm_json.json)
          IN  IF labels_df.st = "raised"
              THEN /\ session' = session
                   /\ shown' = Message("labels_error", labels_df.error)
              ELSE /\ session' = [session EXCEPT !.cluster_labels = labels_df.labels]
                   /\ shown' = Message("labels_done", "")
    /\ UNCHANGED <<runs, kneeVars, jointVars, pctVars, tableVars>>

NextApp == LoadModels \/ Submit \/ GenerateLabels

SpecApp == InitApp /\ [][NextApp]_vars

\* C9: a pipeline run that raises leaves rfm_out, cluster_profile and
\* cluster_labels as they were, and the stored rfm_out and cluster_profile are
\* always both unset or both of the same successful run.
C9_FailedRunKeepsResults ==
    /\ [](/\ (session.rfm_out = Unset) <=> (session.cluster_profile = Unset)
          /\ session.rfm_out # Unset => session.rfm_out.run = session.cluster_profile.run)
    /\ [][(runs' = runs + 1 /\ shown'.msg = "pipeline_error") =>
              /\ session'.rfm_out = session.rfm_out
              /\ session'.cluster_profile = session.cluster_profile
              /\ session'.cluster_labels = session.cluster_labels]_vars

\* C9 witness: a run that raised in cluster_rfm_joint after an earlier run had
\* stored results and labels had been generated for them; all three are still there.
C9_Witness ==
    /\ shown = Message("pipeline_error", "cluster_rfm_joint")
    /\ runs >= 2
    /\ session.rfm_out # Unset /\ session.cluster_profile # Unset
    /\ session.cluster_labels # Unset

\* C10: stored labels are unset, or were generated from the stored profile and
\* cover every ClusterId of it; a successful run unsets the labels and a failed
\* label generation leaves them as they were.
C10_LabelsMatchProfile ==
    /\ [](session.cluster_labels # Unset =>
              /\ session.cluster_profile # Unset
              /\ session.cluster_labels.run = session.cluster_profile.run
              /\ session.cluster_profile.ClusterId \subseteq session.cluster_labels.ClusterId)
    /\ [][(runs' = runs + 1 /\ shown'.msg = "pipeline_done") =>
              session'.cluster_labels = Unset]_vars
    /\ [][shown'.msg = "labels_error" =>
              session'.cluster_labels = session.cluster_labels]_vars

\* C10 witness: labels generated for the profile of a second run (the labels of the
\* first were discarded), kept by a label generation that then failed.
C10_Witness ==
    /\ shown.msg = "labels_error"
    /\ session.cluster_labels # Unset
    /\ session.cluster_labels.run >= 2

====
